---- MODULE Spec2Model ----
(***************************************************************************)
(* RentenDashboard: the OAuth authentication subsystem.                    *)
(*                                                                         *)
(*   - OAuthManager (src/src/auth/oauth_manager.py): the encrypted token   *)
(*     store, the grants (code exchange, password, simulated), refresh;    *)
(*   - run_https_callback_server (src/src/auth/callback_server.py): the    *)
(*     local HTTPS listener that captures the OAuth redirect;              *)
(*   - main (src/main.py): the orchestration of the authentication phase.  *)
(*                                                                         *)
(* Three specifications share the definitions:                             *)
(*   Spec          the program: main() from configuration to the end of    *)
(*                 the authentication phase and the token check of         *)
(*                 connect_all_accounts;                                   *)
(*   ListenerSpec  run_https_callback_server called directly, several      *)
(*                 times on the same port, with any timeout;               *)
(*   StoreSpec     the public methods of one OAuthManager called in any    *)
(*                 order for several bank identities.                      *)
(***************************************************************************)
EXTENDS Integers, Sequences, FiniteSets, TLC

VARIABLES
    cfg,          \* load_config(): the configuration values main reads
    tokens,       \* OAuthManager._tokens: bank name -> ciphertext (or NoEntry)
    encCount,     \* number of Fernet encryptions done (a fresh IV each)
    rndCount,     \* number of secrets.token_urlsafe(16) draws done
    pc,           \* position of main()
    flowState,    \* `state` of the running authorization_code_flow
    hist,         \* what main's authentication phase has done (observer)
    conn,         \* the running connect_all_accounts: its loop and all_accounts
    lpc,          \* position of run_https_callback_server
    ltimeout,     \* its `timeout` argument
    lcertOk,      \* whether cert_path/key_path name a loadable pair
    authResult,   \* app['auth_result']
    polls,        \* iterations of the wait loop completed
    runner,       \* the AppRunner: "none", "setup", "cleaned"
    portOwner,    \* who holds host:port: "free", "listener"
    lout,         \* how the invocation ended: result dict or raised error
    lobs,         \* what the listener has seen in this invocation (observer)
    nreq,         \* HTTP requests sent to the listener so far
    invocations,  \* invocations of run_https_callback_server so far
    calls,        \* OAuthManager method calls made (StoreSpec)
    last          \* the last OAuthManager call and its outcome (observer)

vars == <<cfg, tokens, encCount, rndCount, pc, flowState, hist, conn, lpc, ltimeout,
          lcertOk, authResult, polls, runner, portOwner, lout, lobs, nreq,
          invocations, calls, last>>

storeVars == <<tokens, encCount, rndCount>>
mainVars == <<cfg, pc, flowState, hist, conn>>
listenerVars == <<lpc, ltimeout, lcertOk, authResult, polls, runner, portOwner,
                  lout, lobs, nreq, invocations>>
apiVars == <<calls, last>>

-----------------------------------------------------------------------------
(* Bounds of the model.                                                    *)

\* largest `timeout` (number of one-second polls) given to the listener
MaxTimeout == 2
\* HTTP requests the environment sends to one run of the model
MaxRequests == 2
\* invocations of run_https_callback_server in ListenerSpec
MaxInvocations == 2
\* OAuthManager method calls in StoreSpec
MaxCalls == 3

-----------------------------------------------------------------------------
(* Values.                                                                 *)

\* Python's None (also what dict.get and request.query.get give for an
\* absent key)
PyNone == "<None>"

\* Python truthiness of an Optional[str]
Truthy(v) == v # PyNone /\ v # ""

\* no entry under a key of OAuthManager._tokens (`bank_name not in self._tokens`)
NoEntry == [key |-> "<no entry>", iv |-> 0, intact |-> FALSE,
            data |-> [type |-> "none", members |-> <<>>]]

\* a key that a JSON object does not have
Missing == "<missing>"

\* the bank names used as keys of the token store
BankNames == {"bankA", "bankB"}

\* dict.get(key) on a Python dict, a function from its keys
DictGet(d, k) == IF k \in DOMAIN d THEN d[k] ELSE PyNone

-----------------------------------------------------------------------------
(* The token endpoint (external): what one POST can produce.               *)

HTTP_OK == 200

\* bodies of a 200 response that parse as JSON: an object with or without
\* access_token / refresh_token, or a JSON value that is no object
AccessTokens == {Missing, "", "at1", "at2"}
RefreshTokens == {Missing, "", "rt1"}

JsonObject(d) == [type |-> "object", dict |-> d]
JsonArray == [type |-> "array"]

BodyObject(at, rt) ==
    JsonObject([k \in {f \in {"access_token", "refresh_token"} :
                         (IF f = "access_token" THEN at ELSE rt) # Missing}
                  |-> IF k = "access_token" THEN at ELSE rt])

JsonBodies == {BodyObject(at, rt) : at \in AccessTokens, rt \in RefreshTokens}
                \cup {JsonArray}

\* outcomes of session.post(token_url, ...) and of reading the response
PostOutcomes ==
    {[kind |-> "response", status |-> HTTP_OK, json |-> b] : b \in JsonBodies}
      \cup {[kind |-> "response", status |-> 401, json |-> JsonArray],
            [kind |-> "response", status |-> 500, json |-> JsonArray],
            [kind |-> "badjson"],     \* 200 whose body is not JSON: response.json() raises
            [kind |-> "timeout"],     \* asyncio.TimeoutError (ClientTimeout)
            [kind |-> "neterror"]}    \* aiohttp.ClientError

-----------------------------------------------------------------------------
(* Token Cipher: json.dumps + Fernet.encrypt, Fernet.decrypt + json.loads. *)

\* (mutant) the serializer leaves the scope out
KeyOrderWithoutScope == <<"access_token", "token_type", "expires_in", "refresh_token">>

\* the order in which json.dumps writes the keys the model uses
KeyOrder == <<"access_token", "token_type", "expires_in", "refresh_token", "scope">>

\* json.dumps: an object becomes the list of its members, in order
JsonDumps(v) ==
    IF v.type = "object"
    THEN LET present == SelectSeq(KeyOrder, LAMBDA k : k \in DOMAIN v.dict)
         IN  [type |-> "object",
              members |-> [i \in 1..Len(present) |-> <<present[i], v.dict[present[i]]>>]]
    ELSE [type |-> v.type, members |-> <<>>]

\* json.loads: the object whose keys are those of the members
JsonLoads(s) ==
    IF s.type = "object"
    THEN JsonObject([k \in {s.members[i][1] : i \in 1..Len(s.members)} |->
                       s.members[CHOOSE i \in 1..Len(s.members) : s.members[i][1] = k][2]])
    ELSE [type |-> s.type]

\* the key of the Fernet cipher suite of this OAuthManager
EncryptionKey == "key-of-this-process"

\* (mutant) the cipher draws no IV: equal tokens give equal ciphertexts
EncryptTokenFixedIv(token, iv) ==
    [key |-> EncryptionKey, iv |-> 0, intact |-> TRUE, data |-> JsonDumps(token)]

\* (mutant) the serialized token is kept as it is, without the cipher
EncryptTokenCleartext(token, iv) ==
    [key |-> "<cleartext>", iv |-> 0, intact |-> TRUE, data |-> JsonDumps(token)]

\* OAuthManager._encrypt_token; iv is the fresh IV Fernet draws. A Fernet
\* token carries an HMAC under the key: `intact` says whether it still matches
EncryptToken(token, iv) ==
    [key |-> EncryptionKey, iv |-> iv, intact |-> TRUE, data |-> JsonDumps(token)]

\* whether Fernet.decrypt accepts the ciphertext under this process's key
\* (it raises InvalidToken for another key and for a token whose HMAC fails)
Decrypts(ct) == ct.key = EncryptionKey /\ ct.intact

\* OAuthManager._decrypt_token, where Decrypts(ct)
DecryptToken(ct) == JsonLoads(ct.data)

-----------------------------------------------------------------------------
(* Token Store: OAuthManager._tokens and its readers.                      *)

\* (mutant) the store keeps the record it already has for the name
StoreTokenIfAbsent(store, name, ct) ==
    IF store[name].key = "<no entry>" THEN [store EXCEPT ![name] = ct] ELSE store

\* (mutant) the assignment reaches every key of the dict
StoreTokenAllNames(store, name, ct) == [n \in DOMAIN store |-> ct]

\* self._tokens[bank_name] = encrypted_token
StoreToken(store, name, ct) == [store EXCEPT ![name] = ct]

\* get_access_token, lines 307-308, the body of its try: the value it
\* computes or the exception it meets
TryAccessToken(ct) ==
    IF ~Decrypts(ct) THEN [exc |-> "InvalidToken", value |-> PyNone]
    ELSE LET t == DecryptToken(ct)
         IN  IF t.type # "object" THEN [exc |-> "AttributeError", value |-> PyNone]
             ELSE [exc |-> PyNone, value |-> DictGet(t.dict, "access_token")]

\* (mutant) get_access_token without its `except Exception`
GetAccessTokenUncaught(store, name) ==
    IF store[name] = NoEntry THEN [exc |-> PyNone, value |-> PyNone]
    ELSE TryAccessToken(store[name])

\* OAuthManager.get_access_token: what it returns and what it raises (exc)
GetAccessTokenResult(store, name) ==
    IF store[name] = NoEntry THEN [exc |-> PyNone, value |-> PyNone]
    ELSE LET r == TryAccessToken(store[name])
         IN  IF r.exc # PyNone THEN [exc |-> PyNone, value |-> PyNone]   \* except Exception
             ELSE r

\* OAuthManager.get_access_token: the value returned
GetAccessToken(store, name) == GetAccessTokenResult(store, name).value

\* OAuthManager.is_token_valid
IsTokenValid(store, name) ==
    store[name] # NoEntry /\ GetAccessToken(store, name) # PyNone

\* (mutant) the fabricated token is the same at every invocation
MockTokenFixed(r1, r2) ==
    JsonObject([access_token |-> "mock_access_token_fixed", token_type |-> "Bearer",
                expires_in |-> 3600, refresh_token |-> "mock_refresh_token_fixed",
                scope |-> "accounts transactions balances"])

\* the token simulate_oauth_flow fabricates from two random draws
\* (secrets.token_urlsafe(16): each draw gives a value not drawn before)
MockToken(r1, r2) ==
    JsonObject([k \in {"access_token", "token_type", "expires_in", "refresh_token", "scope"} |->
        CASE k = "access_token"  -> "mock_access_token_" \o ToString(r1)
          [] k = "token_type"    -> "Bearer"
          [] k = "expires_in"    -> 3600
          [] k = "refresh_token" -> "mock_refresh_token_" \o ToString(r2)
          [] k = "scope"         -> "accounts transactions balances"])

\* OAuthManager.simulate_oauth_flow: the store afterwards
SimulateStore(store, name, rnd, enc) ==
    StoreToken(store, name, EncryptToken(MockToken(rnd + 1, rnd + 2), enc + 1))

\* (mutant) the status of the response is not looked at
IsOkAnyStatus(out) == out.kind = "response"

\* whether a POST outcome is the `response.status == 200` branch with a body
\* response.json() can read
IsOk(out) == out.kind = "response" /\ out.status = HTTP_OK

\* (mutant) a POST that did not give 200 is issued again retry_attempts times
PostsIssuedWithRetry(out, retryAttempts) == IF IsOk(out) THEN 1 ELSE 1 + retryAttempts

\* the number of session.post calls of one exchange, password grant or
\* refresh that reaches its POST: one, self.retry_attempts is read nowhere
PostsIssued(out, retryAttempts) == 1

\* OAuthManager.exchange_code_for_token: the store afterwards, name being
\* bank_config['name']
ExchangeStore(store, name, out, enc) ==
    IF IsOk(out) THEN StoreToken(store, name, EncryptToken(out.json, enc + 1))
    ELSE store

\* OAuthManager.password_grant_for_token, once username and password are
\* there: the store afterwards, name being bank_config['name']
PasswordStore(store, name, out, enc) ==
    IF IsOk(out) THEN StoreToken(store, name, EncryptToken(out.json, enc + 1))
    ELSE store

\* (mutant) a refresh leaves the stored record as it is
RefreshStoreKeepsOld(store, name, out, enc) == store

\* (mutant) a refresh that fails drops the record it tried to renew
RefreshStoreDropsOnFailure(store, name, out, enc) ==
    IF IsOk(out) THEN [store EXCEPT ![name] = EncryptToken(out.json, enc + 1)]
    ELSE [store EXCEPT ![name] = NoEntry]

\* OAuthManager.refresh_token, once a refresh token is there: the store
\* afterwards, name being the bank_name argument
RefreshStore(store, name, out, enc) ==
    IF IsOk(out) THEN StoreToken(store, name, EncryptToken(out.json, enc + 1))
    ELSE store

-----------------------------------------------------------------------------
(* Callback Listener: run_https_callback_server and its route handlers.    *)

\* what request.query.get gives for code, state, error, error_description
Codes == {PyNone, "codeA", "codeB"}
CallbackStates == {PyNone, "stateX", "stateY"}
Errors == {PyNone, "access_denied"}
Descriptions == {PyNone, "user denied"}
\* (the model sends an error_description only together with an error)
Queries == {q \in [code : Codes, state : CallbackStates, error : Errors,
                   error_description : Descriptions] :
              q.error = PyNone => q.error_description = PyNone}

\* app['auth_result'] = None
NoResult == [none |-> TRUE, code |-> PyNone, state |-> PyNone, error |-> PyNone,
             error_description |-> PyNone]

\* the dict _handle_callback builds from the query
CallbackDict(q) == [none |-> FALSE, code |-> q.code, state |-> q.state,
                    error |-> q.error, error_description |-> q.error_description]

\* {'error': 'timeout', 'error_description': 'No callback received'}; the keys
\* it lacks read as None through dict.get
TimeoutResult == [none |-> FALSE, code |-> PyNone, state |-> PyNone,
                  error |-> "timeout", error_description |-> "No callback received"]

\* _handle_callback: app['auth_result'] after a GET /callback
HandleCallback(slot, q) == CallbackDict(q)

\* (mutant) the informational page marks the result as captured
HandleOtherCaptures(slot) ==
    [none |-> FALSE, code |-> PyNone, state |-> PyNone, error |-> PyNone,
     error_description |-> PyNone]

\* _handle_root, _handle_favicon: app['auth_result'] after GET / or /favicon.ico
HandleOther(slot) == slot

\* how an invocation stands: running, returned a dict, or raised
Running == [kind |-> "running", result |-> NoResult, error |-> PyNone]
Returned(d) == [kind |-> "returned", result |-> d, error |-> PyNone]
Raised(e) == [kind |-> "raised", result |-> NoResult, error |-> e]

\* (mutant) the loop polls once more than `timeout` times
WaitStepOneMore(slot, polled, timeout) ==
    IF polled > 0 /\ ~slot.none THEN [pc |-> "finally", out |-> Returned(slot)]
    ELSE IF polled <= timeout THEN [pc |-> "sleep", out |-> Running]
    ELSE [pc |-> "finally", out |-> Returned(TimeoutResult)]

\* the wait loop `for _ in range(timeout): await sleep(1); if slot is not None:
\* return slot` followed by `return {timeout}`: where it stands after `polled`
\* polls with the slot as read by the last of them
WaitStep(slot, polled, timeout) ==
    IF polled > 0 /\ ~slot.none THEN [pc |-> "finally", out |-> Returned(slot)]
    ELSE IF polled < timeout THEN [pc |-> "sleep", out |-> Running]
    ELSE [pc |-> "finally", out |-> Returned(TimeoutResult)]

\* (mutant) the cleanup leaves the socket bound
PortLeakedAfterCleanup == "listener"

\* `finally: await runner.cleanup()`: the runner and the port afterwards
RunnerAfterCleanup == "cleaned"
PortAfterCleanup == "free"

\* the observer of one invocation
\*   bound         site.start() succeeded
\*   first         the dict of the first /callback handled during the wait loop
\*   captured      the number of /callback requests handled during the wait loop
\*   capturePoll   the number of polls done when the first of them was handled
\*   late          the number of /callback requests handled during cleanup
\*   afterTimeout  the previous invocation returned the timeout result
NoObs == [bound |-> FALSE, first |-> NoResult, captured |-> 0, capturePoll |-> -1,
          late |-> 0, afterTimeout |-> FALSE]

\* a call of run_https_callback_server(host, port, cert, key, timeout): lines
\* 40-46, a new application whose slot is None
ListenerStart(timeout, certOk) ==
    /\ lpc' = "ssl"
    /\ ltimeout' = timeout
    /\ lcertOk' = certOk
    /\ authResult' = NoResult
    /\ polls' = 0
    /\ runner' = "none"
    /\ lout' = Running
    /\ lobs' = [NoObs EXCEPT !.afterTimeout = (lpc = "done" /\ lout = Returned(TimeoutResult))]
    /\ invocations' = invocations + 1
    /\ UNCHANGED <<portOwner, nreq>>

\* ssl_ctx.load_cert_chain: raises when the certificate or key cannot be loaded
LoadCertChain ==
    /\ lpc = "ssl"
    /\ IF lcertOk
       THEN lpc' = "runner_setup" /\ UNCHANGED lout
       ELSE lpc' = "done" /\ lout' = Raised("SSLError")
    /\ UNCHANGED <<ltimeout, lcertOk, authResult, polls, runner, portOwner, lobs,
                   nreq, invocations>>
    /\ UNCHANGED <<storeVars, mainVars, apiVars>>

\* await runner.setup()
RunnerSetup ==
    /\ lpc = "runner_setup"
    /\ runner' = "setup"
    /\ lpc' = "site_start"
    /\ UNCHANGED <<ltimeout, lcertOk, authResult, polls, portOwner, lout, lobs,
                   nreq, invocations>>
    /\ UNCHANGED <<storeVars, mainVars, apiVars>>

\* await site.start(): binds host:port, or raises OSError when it cannot (the
\* port is held); it is outside the try, so a failure skips the finally
SiteStart(ok) ==
    /\ lpc = "site_start"
    /\ ok => portOwner = "free"
    /\ IF ok
       THEN LET n == WaitStep(authResult, 0, ltimeout)
            IN  /\ portOwner' = "listener"
                /\ lobs' = [lobs EXCEPT !.bound = TRUE]
                /\ lpc' = n.pc
                /\ lout' = n.out
       ELSE /\ lpc' = "done"
            /\ lout' = Raised("OSError")
            /\ UNCHANGED <<portOwner, lobs>>
    /\ UNCHANGED <<ltimeout, lcertOk, authResult, polls, runner, nreq, invocations>>
    /\ UNCHANGED <<storeVars, mainVars, apiVars>>

\* one iteration of the wait loop: sleep(1) is over, the slot is read
Poll ==
    /\ lpc = "sleep"
    /\ polls' = polls + 1
    /\ LET n == WaitStep(authResult, polls + 1, ltimeout)
       IN  lpc' = n.pc /\ lout' = n.out
    /\ UNCHANGED <<ltimeout, lcertOk, authResult, runner, portOwner, lobs, nreq,
                   invocations>>
    /\ UNCHANGED <<storeVars, mainVars, apiVars>>

\* finally: await runner.cleanup(), then the return value reaches the caller
Cleanup ==
    /\ lpc = "finally"
    /\ runner' = RunnerAfterCleanup
    /\ portOwner' = PortAfterCleanup
    /\ lpc' = "done"
    /\ UNCHANGED <<ltimeout, lcertOk, authResult, polls, lout, lobs, nreq, invocations>>
    /\ UNCHANGED <<storeVars, mainVars, apiVars>>

\* the listener is bound and its coroutine is suspended (in sleep(1) or in
\* runner.cleanup()), so the event loop can run a request handler
Serving == portOwner = "listener" /\ lpc \in {"sleep", "finally"}

\* the environment: a GET /callback?... reaches the listener and is handled
CallbackRequest(q) ==
    /\ Serving
    /\ nreq < MaxRequests
    /\ nreq' = nreq + 1
    /\ authResult' = HandleCallback(authResult, q)
    /\ lobs' = IF lpc = "sleep"
               THEN [lobs EXCEPT !.first = IF lobs.captured = 0 THEN CallbackDict(q) ELSE @,
                                 !.captured = @ + 1,
                                 !.capturePoll = IF lobs.captured = 0 THEN polls ELSE @]
               ELSE [lobs EXCEPT !.late = @ + 1]
    /\ UNCHANGED <<lpc, ltimeout, lcertOk, polls, runner, portOwner, lout, invocations>>
    /\ UNCHANGED <<storeVars, mainVars, apiVars>>

\* the environment: a GET / or GET /favicon.ico reaches the listener
OtherRequest ==
    /\ Serving
    /\ nreq < MaxRequests
    /\ nreq' = nreq + 1
    /\ authResult' = HandleOther(authResult)
    /\ UNCHANGED <<lpc, ltimeout, lcertOk, polls, runner, portOwner, lout, lobs,
                   invocations>>
    /\ UNCHANGED <<storeVars, mainVars, apiVars>>

ListenerStep ==
    \/ LoadCertChain
    \/ RunnerSetup
    \/ \E ok \in BOOLEAN : SiteStart(ok)
    \/ Poll
    \/ Cleanup
    \/ \E q \in Queries : CallbackRequest(q)
    \/ OtherRequest

-----------------------------------------------------------------------------
(* OAuth Orchestrator: main() and OAuthManager.authorization_code_flow.    *)

\* load_config(), line 38: oauth.retry_attempts when OAUTH_RETRY_ATTEMPTS is
\* unset
DefaultRetryAttempts == 3

\* load_config(): client_id / client_secret are os.getenv values (None when
\* unset), the TLS paths default to ''; tlsLoadable says whether the files
\* the two paths name are a certificate/key pair ssl can load
Configs == [name : BankNames \cup {""},
            client_id : {PyNone, "cid"},
            client_secret : {PyNone, "secret"},
            tls_cert_path : {"", "cert.pem"},
            tls_key_path : {"", "key.pem"},
            tlsLoadable : BOOLEAN,
            retry_attempts : {DefaultRetryAttempts}]

\* (mutant) the choice of the grant looks at the client credentials only
UseAuthCodeFlowIgnoringTls(c) == Truthy(c.client_id) /\ Truthy(c.client_secret)

\* the condition of main's `if`: all four values truthy
UseAuthCodeFlow(c) ==
    /\ Truthy(c.client_id)
    /\ Truthy(c.client_secret)
    /\ Truthy(c.tls_cert_path)
    /\ Truthy(c.tls_key_path)

\* (mutant) the guard looks at the certificate path only
TlsConfiguredCertOnly(c) == Truthy(c.tls_cert_path)

\* authorization_code_flow's own guard before the browser is opened
TlsConfigured(c) == Truthy(c.tls_cert_path) /\ Truthy(c.tls_key_path)

NoHist == [acf |-> FALSE, browser |-> 0, listeners |-> 0, posts |-> 0,
           exchanged |-> NoResult, simulated |-> 0, fellBack |-> FALSE,
           regranted |-> FALSE, launchFailed |-> FALSE, error |-> PyNone]

\* await oauth_manager.simulate_oauth_flow(name, ...), as a step of main
Simulate(name) ==
    /\ tokens' = SimulateStore(tokens, name, rndCount, encCount)
    /\ rndCount' = rndCount + 2
    /\ encCount' = encCount + 1

\* main, lines 41-50: the choice of the grant
MainSelect ==
    /\ pc = "select"
    /\ IF UseAuthCodeFlow(cfg)
       THEN /\ pc' = "acf_url"
            /\ hist' = [hist EXCEPT !.acf = TRUE]
            /\ UNCHANGED storeVars
       ELSE /\ Simulate(cfg.name)
            /\ pc' = "authenticated"
            /\ hist' = [hist EXCEPT !.simulated = @ + 1]
    /\ UNCHANGED <<cfg, conn, flowState>>
    /\ UNCHANGED <<listenerVars, apiVars>>

\* the state secrets.token_urlsafe(32) draws for the attempt: one value, a
\* callback can bring it, another one (CallbackStates) or none
FlowStates == {"stateX"}

\* authorization_code_flow, lines 263-272: the state is drawn, the TLS paths
\* are checked
AcfGenerateUrl(s) ==
    /\ pc = "acf_url"
    /\ flowState' = s
    /\ pc' = IF TlsConfigured(cfg) THEN "acf_browser" ELSE "except"
    /\ hist' = IF TlsConfigured(cfg) THEN hist
               ELSE [hist EXCEPT !.error = "OAuthError"]
    /\ UNCHANGED <<cfg, conn>>
    /\ UNCHANGED <<storeVars, listenerVars, apiVars>>

\* lines 276-284: where the flow goes after webbrowser.open: a False and an
\* exception are logged and the listener is awaited all the same
AfterBrowser(outcome) == "acf_listen"

\* lines 275-281: webbrowser.open returns True or False or raises; each case
\* is logged and the flow goes on
AcfOpenBrowser(outcome) ==
    /\ pc = "acf_browser"
    /\ hist' = [hist EXCEPT !.browser = @ + 1, !.launchFailed = (outcome # "opened")]
    /\ pc' = AfterBrowser(outcome)
    /\ UNCHANGED <<cfg, conn, flowState>>
    /\ UNCHANGED <<storeVars, listenerVars, apiVars>>

\* line 284: run_https_callback_server(host, port, cert, key) is called with
\* its default timeout (MaxTimeout polls stand for the 120 of the source)
AcfListen ==
    /\ pc = "acf_listen"
    /\ ListenerStart(MaxTimeout, cfg.tlsLoadable)
    /\ hist' = [hist EXCEPT !.listeners = @ + 1]
    /\ pc' = "acf_wait"
    /\ UNCHANGED <<cfg, conn, flowState>>
    /\ UNCHANGED <<storeVars, apiVars>>

\* (mutant) the code is looked at before the error
AfterCallbackCodeFirst(out) ==
    IF out.kind = "raised" THEN "except"
    ELSE IF Truthy(out.result.code) THEN "acf_exchange"
    ELSE "except"

\* lines 284-290: what the flow does with the outcome of the listener
AfterCallback(out) ==
    IF out.kind = "raised" THEN "except"
    ELSE IF Truthy(out.result.error) THEN "except"
    ELSE IF ~Truthy(out.result.code) THEN "except"
    ELSE "acf_exchange"

\* lines 284-289: the exception that leaves the flow there: the listener's
\* own, or the OAuthError of lines 286 and 289
CallbackError(out) ==
    IF out.kind = "raised" THEN out.error
    ELSE IF Truthy(out.result.error) \/ ~Truthy(out.result.code) THEN "OAuthError"
    ELSE PyNone

AcfResult ==
    /\ pc = "acf_wait"
    /\ lpc = "done"
    /\ pc' = AfterCallback(lout)
    /\ hist' = [hist EXCEPT !.error = CallbackError(lout)]
    /\ UNCHANGED <<cfg, conn, flowState>>
    /\ UNCHANGED <<storeVars, listenerVars, apiVars>>

\* the exception exchange_code_for_token raises for a POST outcome: every
\* failure inside its try is wrapped into OAuthError
ExchangeError(out) == IF IsOk(out) THEN PyNone ELSE "OAuthError"

\* line 290: exchange_code_for_token(code, bank_config, state); one POST
AcfExchange(out) ==
    /\ pc = "acf_exchange"
    /\ hist' = [hist EXCEPT !.posts = @ + 1, !.exchanged = lout.result,
                            !.error = ExchangeError(out)]
    /\ tokens' = ExchangeStore(tokens, cfg.name, out, encCount)
    /\ encCount' = IF IsOk(out) THEN encCount + 1 ELSE encCount
    /\ pc' = IF IsOk(out) THEN "authenticated" ELSE "except"
    /\ UNCHANGED <<cfg, conn, flowState, rndCount>>
    /\ UNCHANGED <<listenerVars, apiVars>>

\* main, lines 46-48: any exception of the flow leads to the simulated grant
MainExcept ==
    /\ pc = "except"
    /\ Simulate(cfg.name)
    /\ hist' = [hist EXCEPT !.simulated = @ + 1, !.fellBack = TRUE]
    /\ pc' = "authenticated"
    /\ UNCHANGED <<cfg, conn, flowState>>
    /\ UNCHANGED <<listenerVars, apiVars>>

\* the key of banks_config under which load_config puts the bank
PrimaryKey == "primary"

\* _ensure_valid_token, line 212: bank_config.get('name') or bank_name
TokenKey(name, bankName) == IF Truthy(name) THEN name ELSE bankName

\* (mutant) the grant is run whatever the store holds
NeedsGrantAlways(store, key) == TRUE

\* _ensure_valid_token, line 213: whether it runs the simulated grant
NeedsGrant(store, key) == ~IsTokenValid(store, key)

\* BankConnector._ensure_valid_token for the primary bank, the first step of
\* connect_all_accounts
EnsureValidToken ==
    /\ pc = "authenticated"
    /\ IF NeedsGrant(tokens, TokenKey(cfg.name, PrimaryKey))
       THEN /\ Simulate(TokenKey(cfg.name, PrimaryKey))
            /\ hist' = [hist EXCEPT !.simulated = @ + 1, !.regranted = TRUE]
       ELSE UNCHANGED <<storeVars, hist>>
    /\ pc' = "connected"
    /\ UNCHANGED <<cfg, conn, flowState>>
    /\ UNCHANGED <<listenerVars, apiVars>>

MainStep ==
    \/ MainSelect
    \/ \E s \in FlowStates : AcfGenerateUrl(s)
    \/ \E o \in {"opened", "not opened", "raised"} : AcfOpenBrowser(o)
    \/ AcfListen
    \/ AcfResult
    \/ \E out \in PostOutcomes : AcfExchange(out)
    \/ MainExcept
    \/ EnsureValidToken

-----------------------------------------------------------------------------
(* The program.                                                            *)

\* the outcome of the last OAuthManager call, and per bank name whether a
\* grant has run for it and the token of its most recent successful grant
NoJson == [type |-> "none"]
NoCall == [op |-> "none", name |-> "bankA", out |-> [kind |-> "none"],
           error |-> PyNone, posted |-> FALSE, token |-> NoJson,
           posts |-> 0,
           sent |-> PyNone, creds |-> <<PyNone, PyNone>>, log |-> "none",
           value |-> PyNone,
           ran |-> {}, recent |-> [n \in BankNames |-> NoJson],
           by |-> [n \in BankNames |-> "none"]]

\* the keys self._tokens can get: the names of the bank configurations and
\* the key of banks_config
StoreKeys == BankNames \cup {"", PrimaryKey}

\* the keys of banks_config: load_config's 'primary', and a second bank
\* configured under its own name
ConnKeys == {PrimaryKey, "bankB"}

\* no entry under a key of all_accounts
Absent == "<absent>"

\* connect_all_accounts is not running: all_accounts does not exist yet
NoConn == [phase |-> "idle", banks |-> <<>>, i |-> 0,
           all |-> [k \in ConnKeys |-> Absent], failed |-> {}]

\* the state after load_config() gave c and the constructors of main ran
InitWith(c) ==
    /\ cfg = c
    /\ conn = NoConn
    /\ tokens = [n \in StoreKeys |-> NoEntry]
    /\ encCount = 0
    /\ rndCount = 0
    /\ pc = "select"
    /\ flowState = PyNone
    /\ hist = NoHist
    /\ lpc = "idle"
    /\ ltimeout = 0
    /\ lcertOk = FALSE
    /\ authResult = NoResult
    /\ polls = 0
    /\ runner = "none"
    /\ portOwner = "free"
    /\ lout = Running
    /\ lobs = NoObs
    /\ nreq = 0
    /\ invocations = 0
    /\ calls = 0
    /\ last = NoCall

Init == \E c \in Configs : InitWith(c)

Next == MainStep \/ ListenerStep

Spec == Init /\ [][Next]_vars

-----------------------------------------------------------------------------
(* ListenerSpec: run_https_callback_server called directly.                *)

\* the configuration load_config() gives with no environment set
SandboxConfig == [name |-> "bankA", client_id |-> PyNone, client_secret |-> PyNone,
                  tls_cert_path |-> "", tls_key_path |-> "", tlsLoadable |-> FALSE,
                  retry_attempts |-> DefaultRetryAttempts]

\* a caller awaits run_https_callback_server(host, port, cert, key, timeout)
\* once the previous invocation, if any, is over
ListenerCall(timeout, certOk) ==
    /\ lpc \in {"idle", "done"}
    /\ invocations < MaxInvocations
    /\ ListenerStart(timeout, certOk)
    /\ UNCHANGED <<storeVars, mainVars, apiVars>>

ListenerNext ==
    \/ \E t \in 0..MaxTimeout, ok \in BOOLEAN : ListenerCall(t, ok)
    \/ ListenerStep

ListenerInit == InitWith(SandboxConfig)

ListenerSpec == ListenerInit /\ [][ListenerNext]_vars

\* one invocation of run_https_callback_server and the requests it gets
ListenerOnceNext ==
    \/ \E t \in 0..MaxTimeout, ok \in BOOLEAN : invocations = 0 /\ ListenerCall(t, ok)
    \/ ListenerStep

\* one invocation under the scheduling of asyncio: a coroutine that can go
\* on (its sleep(1) is over, its awaited setup or cleanup returns) does go on
ListenerFairSpec ==
    /\ ListenerInit
    /\ [][ListenerOnceNext]_vars
    /\ WF_vars(LoadCertChain)
    /\ WF_vars(RunnerSetup)
    /\ WF_vars(\E ok \in BOOLEAN : SiteStart(ok))
    /\ WF_vars(Poll)
    /\ WF_vars(Cleanup)

-----------------------------------------------------------------------------
(* StoreSpec: the public methods of one OAuthManager, called in any order. *)

\* the access token a token (a parsed JSON value) carries, None when it has
\* none
AccessTokenOf(t) == IF t.type = "object" THEN DictGet(t.dict, "access_token") ELSE PyNone

\* username / password of a bank configuration (os.getenv: None when unset)
Credentials == {PyNone, "", "user"}

\* the operations that run a grant for the name whatever they find
GrantOps == {"simulate", "exchange", "password"}

\* simulate_oauth_flow, line 340: the level of the first record it logs
SimulateLogLevel == "WARNING"

\* the record of a call that is over; a call that stored `token` ran a
\* grant; `by` says per name whether its record came from a grant, from
\* _ensure_valid_token or from a refresh
Called(op, name, out, error, posted, token) ==
    [op |-> op, name |-> name, out |-> out, error |-> error, posted |-> posted,
     token |-> token,
     posts |-> IF posted THEN PostsIssued(out, cfg.retry_attempts) ELSE 0,
     sent |-> PyNone, creds |-> <<PyNone, PyNone>>, log |-> "none", value |-> PyNone,
     ran |-> IF op \in GrantOps \/ token # NoJson THEN last.ran \cup {name} ELSE last.ran,
     recent |-> IF token = NoJson THEN last.recent
                ELSE [last.recent EXCEPT ![name] = token],
     by |-> IF token = NoJson THEN last.by
            ELSE [last.by EXCEPT ![name] = IF op \in GrantOps THEN "grant" ELSE op]]

\* await manager.simulate_oauth_flow(name, bank_config)
CallSimulate(name) ==
    /\ calls < MaxCalls
    /\ calls' = calls + 1
    /\ Simulate(name)
    /\ last' = [Called("simulate", name, [kind |-> "none"], PyNone, FALSE,
                       MockToken(rndCount + 1, rndCount + 2))
                EXCEPT !.log = SimulateLogLevel]
    /\ UNCHANGED <<mainVars, listenerVars>>

\* await manager.exchange_code_for_token(code, bank_config, state) with
\* bank_config['name'] = name
CallExchange(name, out) ==
    /\ calls < MaxCalls
    /\ calls' = calls + 1
    /\ tokens' = ExchangeStore(tokens, name, out, encCount)
    /\ encCount' = IF IsOk(out) THEN encCount + 1 ELSE encCount
    /\ last' = Called("exchange", name, out, ExchangeError(out), TRUE,
                      IF IsOk(out) THEN out.json ELSE NoJson)
    /\ UNCHANGED <<rndCount, mainVars, listenerVars>>

\* the exception password_grant_for_token raises: its POST is in no try
PasswordError(out) ==
    CASE IsOk(out) -> PyNone
      [] out.kind = "response" -> "OAuthError"
      [] out.kind = "timeout" -> "TimeoutError"
      [] out.kind = "neterror" -> "ClientError"
      [] out.kind = "badjson" -> "ContentTypeError"

\* (mutant) the guard looks at the username only
HasUsername(username, password) == Truthy(username)

\* password_grant_for_token, line 176: the negation of its fail-fast guard
HasPasswordCredentials(username, password) == Truthy(username) /\ Truthy(password)

\* await manager.password_grant_for_token(bank_config)
CallPasswordGrant(name, username, password, out) ==
    /\ calls < MaxCalls
    /\ calls' = calls + 1
    /\ IF ~HasPasswordCredentials(username, password)
       THEN /\ last' = [Called("password", name, [kind |-> "none"], "OAuthError", FALSE, NoJson)
                        EXCEPT !.creds = <<username, password>>]
            /\ UNCHANGED <<tokens, encCount>>
       ELSE /\ tokens' = PasswordStore(tokens, name, out, encCount)
            /\ encCount' = IF IsOk(out) THEN encCount + 1 ELSE encCount
            /\ last' = [Called("password", name, out, PasswordError(out), TRUE,
                               IF IsOk(out) THEN out.json ELSE NoJson)
                        EXCEPT !.creds = <<username, password>>]
    /\ UNCHANGED <<rndCount, mainVars, listenerVars>>

\* the refresh token a token (a parsed JSON value) carries, None when it has
\* none
RefreshTokenOf(t) == IF t.type = "object" THEN DictGet(t.dict, "refresh_token") ELSE PyNone

\* (mutant) any stored record is taken to yield a refresh token
CanRefreshAnyRecord(store, name) == store[name] # NoEntry

\* refresh_token, lines 216-224: whether the stored record yields a refresh
\* token to send
CanRefresh(store, name) ==
    /\ store[name] # NoEntry
    /\ Decrypts(store[name])
    /\ DecryptToken(store[name]).type = "object"
    /\ Truthy(DictGet(DecryptToken(store[name]).dict, "refresh_token"))

\* refresh_token, lines 220-228: the refresh_token field of the POST body
RefreshTokenSent(store, name) == RefreshTokenOf(DecryptToken(store[name]))

\* await manager.refresh_token(name, bank_config)
CallRefresh(name, out) ==
    /\ calls < MaxCalls
    /\ calls' = calls + 1
    /\ IF ~CanRefresh(tokens, name)
       THEN /\ last' = Called("refresh", name, [kind |-> "none"], "OAuthError", FALSE, NoJson)
            /\ UNCHANGED <<tokens, encCount>>
       ELSE /\ tokens' = RefreshStore(tokens, name, out, encCount)
            /\ encCount' = IF IsOk(out) THEN encCount + 1 ELSE encCount
            /\ last' = [Called("refresh", name, out, ExchangeError(out), TRUE,
                               IF IsOk(out) THEN out.json ELSE NoJson)
                        EXCEPT !.sent = RefreshTokenSent(tokens, name)]
    /\ UNCHANGED <<rndCount, mainVars, listenerVars>>

\* manager.get_access_token(name)
CallGetAccessToken(name) ==
    /\ calls < MaxCalls
    /\ calls' = calls + 1
    /\ last' = [Called("get", name, [kind |-> "none"],
                       GetAccessTokenResult(tokens, name).exc, FALSE, NoJson)
                EXCEPT !.value = GetAccessTokenResult(tokens, name).value]
    /\ UNCHANGED <<storeVars, mainVars, listenerVars>>

\* await connector._ensure_valid_token('primary', bank_config) with
\* bank_config['name'] = name
CallEnsureValidToken(name) ==
    /\ calls < MaxCalls
    /\ calls' = calls + 1
    /\ IF NeedsGrant(tokens, TokenKey(name, PrimaryKey))
       THEN /\ Simulate(TokenKey(name, PrimaryKey))
            /\ last' = [Called("ensure", TokenKey(name, PrimaryKey), [kind |-> "none"],
                               PyNone, FALSE, MockToken(rndCount + 1, rndCount + 2))
                        EXCEPT !.log = SimulateLogLevel]
       ELSE /\ last' = Called("ensure", TokenKey(name, PrimaryKey), [kind |-> "none"],
                              PyNone, FALSE, NoJson)
            /\ UNCHANGED storeVars
    /\ UNCHANGED <<mainVars, listenerVars>>

StoreNext ==
    \/ \E n \in BankNames : CallSimulate(n)
    \/ \E n \in BankNames, out \in PostOutcomes : CallExchange(n, out)
    \/ \E n \in BankNames, u \in Credentials, p \in Credentials :
          \E out \in IF HasPasswordCredentials(u, p) THEN PostOutcomes
                      ELSE {[kind |-> "none"]} :
              CallPasswordGrant(n, u, p, out)
    \/ \E n \in BankNames, out \in PostOutcomes : CallRefresh(n, out)

StoreInit == InitWith(SandboxConfig)

StoreSpec == StoreInit /\ [][StoreNext]_vars

-----------------------------------------------------------------------------
(* RetrySpec: the three methods that POST to the token endpoint, on a      *)
(* manager constructed with any retry_attempts.                            *)

\* values of oauth_config['retry_attempts'] (OAUTH_RETRY_ATTEMPTS)
RetryAttempts == {0, 1, DefaultRetryAttempts}

RetryInit ==
    \E r \in RetryAttempts : InitWith([SandboxConfig EXCEPT !.retry_attempts = r])

RetryNext ==
    \/ \E out \in PostOutcomes : CallExchange("bankA", out)
    \/ \E out \in PostOutcomes : CallPasswordGrant("bankA", "user", "user", out)
    \/ \E out \in PostOutcomes : CallRefresh("bankA", out)

RetrySpec == RetryInit /\ [][RetryNext]_vars

-----------------------------------------------------------------------------
(* ConnectorSpec: a BankConnector over one OAuthManager: grants, then      *)
(* _ensure_valid_token and get_access_token in any order.                  *)

ConnectorNext ==
    \/ \E n \in BankNames : CallSimulate(n)
    \/ \E n \in BankNames, out \in PostOutcomes : CallExchange(n, out)
    \/ \E n \in BankNames : CallGetAccessToken(n)
    \/ \E n \in BankNames : CallEnsureValidToken(n)

ConnectorSpec == StoreInit /\ [][ConnectorNext]_vars

-----------------------------------------------------------------------------
(* TamperSpec: ConnectorSpec with a store that code outside the manager    *)
(* can write, as a test of get_access_token does through manager._tokens.  *)

\* the key of another OAuthManager (another process, or another
\* TOKEN_ENCRYPTION_KEY)
ForeignKey == "key-of-another-process"

\* the ciphertexts get_access_token cannot decrypt: one made under another
\* key, and the one stored with a byte changed (if there is one)
Undecryptable(store, name) ==
    {[key |-> ForeignKey, iv |-> 1, intact |-> TRUE,
      data |-> JsonDumps(BodyObject("at1", "rt1"))]}
    \cup (IF store[name] = NoEntry THEN {} ELSE {[store[name] EXCEPT !.intact = FALSE]})

\* manager._tokens[name] = ct, written from outside the manager
Tamper(name, ct) ==
    /\ calls < MaxCalls
    /\ calls' = calls + 1
    /\ tokens' = StoreToken(tokens, name, ct)
    /\ last' = Called("tamper", name, [kind |-> "none"], PyNone, FALSE, NoJson)
    /\ UNCHANGED <<encCount, rndCount, mainVars, listenerVars>>

TamperNext ==
    \/ ConnectorNext
    \/ \E n \in BankNames : \E ct \in Undecryptable(tokens, n) : Tamper(n, ct)

TamperSpec == StoreInit /\ [][TamperNext]_vars

-----------------------------------------------------------------------------
(* HelperSpec: the synchronous helpers of OAuthManager, applied to inputs  *)
(* drawn from small sets: the key derivation of the constructor,           *)
(* _encrypt_token, _decrypt_token and generate_authorization_url.          *)

\* values of TOKEN_ENCRYPTION_KEY: unset, empty, a Fernet key (44 url-safe
\* base64 characters of 32 bytes), base64 text of 6 bytes, and text that
\* urlsafe_b64decode refuses (10 alphabet characters: incorrect padding)
FernetKeyText == "<url-safe base64 of 32 bytes>"
Secrets == {PyNone, "", FernetKeyText, "password", "pass phrase"}

\* whether urlsafe_b64decode(key) returns (line 56)
B64Decodes(s) == s \in {FernetKeyText, "password"}

\* the number of bytes urlsafe_b64decode gives for a text it decodes
DecodedLength(s) == IF s = FernetKeyText THEN 32 ELSE 6

\* OAuthManager._generate_encryption_key
GenerateEncryptionKey(secret) ==
    IF ~Truthy(secret) THEN [src |-> "generated", text |-> PyNone]     \* Fernet.generate_key()
    ELSE IF B64Decodes(secret) THEN [src |-> "env", text |-> secret]   \* key.encode('utf-8')
    ELSE [src |-> "sha256", text |-> secret]         \* urlsafe_b64encode(sha256(key))

\* whether Fernet(key) accepts the key: it must decode to 32 bytes
FernetAccepts(key) ==
    key.src \in {"generated", "sha256"} \/ DecodedLength(key.text) = 32

\* OAuthManager(oauth_config) with TOKEN_ENCRYPTION_KEY = secret: lines 33-34
CallConstruct(secret) ==
    /\ calls < MaxCalls
    /\ calls' = calls + 1
    /\ last' = Called("construct", "bankA",
                      [kind |-> "key", secret |-> secret,
                       key |-> GenerateEncryptionKey(secret)],
                      IF FernetAccepts(GenerateEncryptionKey(secret)) THEN PyNone
                      ELSE "ValueError",
                      FALSE, NoJson)
    /\ UNCHANGED <<storeVars, mainVars, listenerVars>>

\* token records: access_token and token_type, with or without the optional
\* refresh_token and scope
TokenRecord(rt, sc) ==
    JsonObject([k \in {"access_token", "token_type"}
                      \cup (IF rt = Missing THEN {} ELSE {"refresh_token"})
                      \cup (IF sc = Missing THEN {} ELSE {"scope"}) |->
        CASE k = "access_token"  -> "at1"
          [] k = "token_type"    -> "Bearer"
          [] k = "refresh_token" -> rt
          [] k = "scope"         -> sc])

TokenRecords == {TokenRecord(rt, sc) : rt \in {Missing, "rt1"},
                                       sc \in {Missing, "", "accounts"}}

\* manager._tokens[name] = manager._encrypt_token(token), as lines 156-157
CallEncrypt(name, token) ==
    /\ calls < MaxCalls
    /\ calls' = calls + 1
    /\ tokens' = StoreToken(tokens, name, EncryptToken(token, encCount + 1))
    /\ encCount' = encCount + 1
    /\ last' = Called("encrypt", name, [kind |-> "none"], PyNone, FALSE, token)
    /\ UNCHANGED <<rndCount, mainVars, listenerVars>>

\* manager._decrypt_token(manager._tokens[name])
CallDecrypt(name) ==
    /\ calls < MaxCalls
    /\ tokens[name] # NoEntry
    /\ calls' = calls + 1
    /\ last' = Called("decrypt", name,
                      [kind |-> "json", json |-> DecryptToken(tokens[name])],
                      PyNone, FALSE, NoJson)
    /\ UNCHANGED <<storeVars, mainVars, listenerVars>>

\* bank_config.get('scope'): None without the key, '' by default (settings
\* line 49), or a configured scope
Scopes == {PyNone, "", "accounts"}

\* the redirect_uri load_config gives by default
RedirectUri == "https://localhost:8443/callback"

\* (mutant) the scope is left out only when there is none at all
IncludesScopeUnlessNone(scope) == scope # PyNone

\* generate_authorization_url, line 103: `if scope:`
IncludesScope(scope) == Truthy(scope)

\* generate_authorization_url, lines 95-104: params, in insertion order
AuthorizationParams(clientId, redirectUri, scope, state) ==
    << <<"response_type", "code">>, <<"client_id", clientId>>,
       <<"redirect_uri", redirectUri>>, <<"state", state>> >>
    \o (IF IncludesScope(scope) THEN << <<"scope", scope>> >> ELSE << >>)

\* urllib.parse.quote_plus of a value: its percent-encoded form
QuotePlus(v) == "quote_plus(" \o v \o ")"

\* urllib.parse.urlencode(params): key=value pairs with the values quoted
UrlEncode(params) ==
    [i \in DOMAIN params |-> <<params[i][1], QuotePlus(params[i][2])>>]

\* secrets.token_urlsafe(32), the r-th draw of the process
FreshState(r) == "state_" \o ToString(r)

\* manager.generate_authorization_url(bank_config) with
\* bank_config.get('scope') = scope
CallGenerateAuthorizationUrl(scope) ==
    /\ calls < MaxCalls
    /\ calls' = calls + 1
    /\ rndCount' = rndCount + 1
    /\ last' = Called("url", "bankA",
                      [kind |-> "url", scope |-> scope, state |-> FreshState(rndCount + 1),
                       query |-> UrlEncode(AuthorizationParams("cid", RedirectUri, scope,
                                                               FreshState(rndCount + 1)))],
                      PyNone, FALSE, NoJson)
    /\ UNCHANGED <<tokens, encCount, mainVars, listenerVars>>

HelperNext ==
    \/ \E s \in Secrets : CallConstruct(s)
    \/ \E n \in BankNames, t \in TokenRecords : CallEncrypt(n, t)
    \/ \E n \in BankNames : CallDecrypt(n)
    \/ \E sc \in Scopes : CallGenerateAuthorizationUrl(sc)

HelperSpec == StoreInit /\ [][HelperNext]_vars

-----------------------------------------------------------------------------
(* Properties of the orchestrator (under Spec).                            *)

\* C1: when client_id, client_secret and both TLS paths are configured, main
\* attempts the authorization-code flow first and the authentication phase
\* ends with is_token_valid(bank name) true, whatever happened in the flow.
C1_AuthPhaseEndsValid ==
    (UseAuthCodeFlow(cfg) /\ pc = "authenticated") =>
        (hist.acf /\ IsTokenValid(tokens, cfg.name))

\* C2: with client_id and client_secret configured but a TLS path missing,
\* main runs the simulated grant directly: authorization_code_flow is not
\* entered, no listener is started or bound, no browser is opened and no
\* POST goes to the token endpoint.
C2_NoTlsSimulatesDirectly ==
    (Truthy(cfg.client_id) /\ Truthy(cfg.client_secret) /\ ~TlsConfigured(cfg)) =>
        /\ ~hist.acf
        /\ hist.listeners = 0 /\ invocations = 0 /\ lpc = "idle" /\ portOwner = "free"
        /\ hist.browser = 0
        /\ hist.posts = 0
        /\ pc # "select" => (hist.simulated >= 1 /\ ~hist.fellBack)

C2_Witness ==
    /\ Truthy(cfg.client_id) /\ Truthy(cfg.client_secret) /\ ~TlsConfigured(cfg)
    /\ pc = "authenticated"
    /\ hist.simulated = 1
    /\ IsTokenValid(tokens, cfg.name)

\* C3: in the authorization-code flow a code is sent to the token endpoint
\* only if the state of the callback that brought it equals the state
\* generated for the attempt.
C3_StateValidated ==
    hist.posts > 0 => hist.exchanged.state = flowState

-----------------------------------------------------------------------------
(* Properties of the callback listener (under ListenerSpec).               *)

\* C4: once a /callback request has been captured, a further /callback
\* request handled before the next poll does not change the captured
\* result, and the result returned is that of the first captured request.
C4_FirstCaptureKept ==
    /\ (lpc = "sleep" /\ lobs.captured > 0) => authResult = lobs.first
    /\ (lpc = "done" /\ lout.kind = "returned" /\ lobs.captured > 0) =>
           lout.result = lobs.first

\* C5: on every exit path of run_https_callback_server (return, timeout,
\* exception during setup) the runner is cleaned up and the port released.
C5_TornDownOnExit ==
    lpc = "done" => (runner # "setup" /\ portOwner # "listener")

\* C6: an invocation that bound its port and handled no /callback during
\* its wait returns the timeout result as a value (it does not raise), with
\* the runner cleaned up and the port free, so that the next invocation
\* finds the port free to bind.
C6_TimeoutIsAResult ==
    /\ (lpc = "done" /\ lobs.bound /\ lobs.captured = 0) =>
           (lout = Returned(TimeoutResult) /\ portOwner = "free" /\ runner = "cleaned")
    /\ (lobs.afterTimeout /\ lpc \in {"ssl", "runner_setup", "site_start"}) =>
           portOwner = "free"

\* a second listener is bound to the port after the first one timed out
C6_Witness ==
    /\ lobs.afterTimeout
    /\ lobs.bound
    /\ portOwner = "listener"

\* C7: a /callback request with code and state handled during the wait is
\* what the invocation returns, at the first poll after its capture, and the
\* listener is no longer bound once the invocation has returned.
C7_ReturnsHandledCallback ==
    (lpc = "done" /\ lout.kind = "returned") =>
        /\ portOwner = "free"
        /\ (lobs.captured > 0 /\ lobs.first.code # PyNone /\ lobs.first.state # PyNone) =>
               /\ lout.result.code = lobs.first.code
               /\ lout.result.state = lobs.first.state
               /\ polls = lobs.capturePoll + 1

-----------------------------------------------------------------------------
(* Properties of the token store (under StoreSpec).                        *)

\* C8: is_token_valid(name) is true exactly when a record is stored for the
\* name, it decrypts, and its access_token is a non-empty string.
C8_ValidIffNonEmptyToken ==
    \A n \in BankNames :
        IsTokenValid(tokens, n) <=>
            /\ tokens[n] # NoEntry
            /\ Decrypts(tokens[n])
            /\ Truthy(AccessTokenOf(DecryptToken(tokens[n])))

\* C9: is_token_valid(name) is false as long as no grant has run for the
\* name, and right after a simulated grant or a code exchange answered with
\* HTTP 200 it is true and get_access_token gives that grant's access token.
C9_ValidAfterGrant ==
    /\ \A n \in BankNames \ last.ran : ~IsTokenValid(tokens, n)
    /\ (last.op = "simulate" \/ (last.op = "exchange" /\ IsOk(last.out))) =>
           /\ IsTokenValid(tokens, last.name)
           /\ GetAccessToken(tokens, last.name) = AccessTokenOf(last.token)

\* C10: the store holds one record per bank name, that of the most recent
\* successful grant or refresh for the name: it decrypts to that token and
\* get_access_token gives that token's access token; a name with no
\* successful grant has no record.
C10_LastWriteWins ==
    \A n \in BankNames :
        IF last.recent[n] = NoJson
        THEN tokens[n] = NoEntry
        ELSE /\ tokens[n] # NoEntry
             /\ Decrypts(tokens[n])
             /\ DecryptToken(tokens[n]) = last.recent[n]
             /\ GetAccessToken(tokens, n) = AccessTokenOf(last.recent[n])

\* a refresh has replaced an earlier record by a token with another access token
C10_Witness ==
    /\ last.op = "refresh"
    /\ IsOk(last.out)
    /\ calls >= 2
    /\ GetAccessToken(tokens, last.name) = "at2"

-----------------------------------------------------------------------------
(* Properties of the grants and the refresh (under StoreSpec), of the      *)
(* readers (C17 under TamperSpec, C19 under ConnectorSpec) and of the keys  *)
(* (C20 under Spec).                                                        *)

\* a step that is one call of a public method, whose record is last'
IsCall(op) == calls' = calls + 1 /\ last'.op = op

\* C11: in every reachable state every value held in the Token Store is the
\* encrypted serialization of a token record (a ciphertext made by
\* _encrypt_token under the key of the process, of the serialization of the
\* token most recently stored for the name); no grant, refresh or fallback
\* path stores a token record in cleartext.
C11_OnlyCiphertextStored ==
    \A n \in StoreKeys :
        tokens[n] # NoEntry =>
            /\ tokens[n].key = EncryptionKey
            /\ tokens[n].intact
            /\ tokens[n].iv \in 1..encCount
            /\ n \in BankNames
            /\ tokens[n].data = JsonDumps(last.recent[n])
            /\ tokens[n] = EncryptToken(last.recent[n], tokens[n].iv)

\* both names hold a record, stored by different operations
C11_Witness ==
    /\ tokens["bankA"] # NoEntry
    /\ tokens["bankB"] # NoEntry
    /\ last.by["bankA"] # last.by["bankB"]
    /\ "refresh" \in {last.by["bankA"], last.by["bankB"]}

\* C12: refresh_token(name, config) fails with OAuthError, without a POST to
\* the token endpoint (and without touching the store), when no record is
\* stored for the name and when the stored record has no refresh_token or an
\* empty one.
C12_RefreshFailsFast ==
    [][\A n \in BankNames :
          (/\ IsCall("refresh")
           /\ last'.name = n
           /\ (tokens[n] = NoEntry \/ ~Truthy(RefreshTokenOf(DecryptToken(tokens[n])))))
          => (/\ last'.error = "OAuthError"
              /\ ~last'.posted
              /\ tokens' = tokens)]_vars

\* a refresh failed without a POST although a record is stored for the name
C12_Witness ==
    /\ last.op = "refresh"
    /\ last.error = "OAuthError"
    /\ ~last.posted
    /\ tokens[last.name] # NoEntry
    /\ ~Truthy(RefreshTokenOf(DecryptToken(tokens[last.name])))

\* C13: a refresh answered with HTTP 200 overwrites the stored record of the
\* name with the response, so that get_access_token gives the new access
\* token; and a refresh for a name whose record came from a refresh sends the
\* refresh_token of that record, or fails with OAuthError without a POST if
\* that record has none.
C13_RefreshOverwrites ==
    [][\A n \in BankNames :
          (IsCall("refresh") /\ last'.name = n) =>
              /\ (last'.posted /\ IsOk(last'.out)) =>
                     /\ DecryptToken(tokens'[n]) = last'.out.json
                     /\ GetAccessToken(tokens', n) = AccessTokenOf(last'.out.json)
              /\ last.by[n] = "refresh" =>
                     IF Truthy(RefreshTokenOf(last.recent[n]))
                     THEN last'.posted /\ last'.sent = RefreshTokenOf(last.recent[n])
                     ELSE last'.error = "OAuthError" /\ ~last'.posted]_vars

\* a refresh that came after a successful refresh for the name, was sent
\* with the refresh token of the record that refresh stored, and was refused
C13_Witness ==
    /\ last.op = "refresh"
    /\ last.posted
    /\ ~IsOk(last.out)
    /\ last.by[last.name] = "refresh"
    /\ last.sent = RefreshTokenOf(last.recent[last.name])
    /\ GetAccessToken(tokens, last.name) = "at2"

\* C14: the password grant fails with OAuthError when username or password
\* is absent or empty in the bank configuration, without a network call and
\* without changing the Token Store.
C14_PasswordGrantFailsFast ==
    [][(/\ IsCall("password")
        /\ (~Truthy(last'.creds[1]) \/ ~Truthy(last'.creds[2])))
       => (/\ last'.error = "OAuthError"
           /\ ~last'.posted
           /\ last'.out.kind = "none"
           /\ tokens' = tokens)]_vars

\* a password grant with a username and an empty password failed, the store
\* holding a record
C14_Witness ==
    /\ last.op = "password"
    /\ last.creds = <<"user", "">>
    /\ last.error = "OAuthError"
    /\ ~last.posted
    /\ tokens[last.name] # NoEntry

\* C15: for code exchange, password grant and refresh, a response of the
\* token endpoint with a status other than 200 gives an OAuthError to the
\* caller and leaves the store as it was.
C15_Non200IsOAuthError ==
    [][\A op \in {"exchange", "password", "refresh"} :
          (/\ IsCall(op)
           /\ last'.posted
           /\ last'.out.kind = "response"
           /\ last'.out.status # HTTP_OK)
          => (/\ last'.error = "OAuthError"
              /\ last'.token = NoJson
              /\ tokens' = tokens)]_vars

\* a password grant answered with 401 while a record is stored for the name
C15_Witness ==
    /\ last.op = "password"
    /\ last.posted
    /\ last.out.kind = "response"
    /\ last.out.status = 401
    /\ last.error = "OAuthError"
    /\ tokens[last.name] # NoEntry

\* C16: for code exchange, password grant and refresh, a client-side timeout
\* of the POST to the token endpoint surfaces as an OAuthError and never as
\* another exception type.
C16_TimeoutIsOAuthError ==
    (last.posted /\ last.out.kind = "timeout") => last.error = "OAuthError"

\* C17: get_access_token(name) never raises: it returns None when no record
\* is stored for the name and when the stored ciphertext does not decrypt
\* (changed after encryption, or made under another key), and otherwise the
\* access_token of the stored record.
C17_GetAccessTokenNeverRaises ==
    last.op = "get" =>
        /\ last.error = PyNone
        /\ last.value =
              IF tokens[last.name] = NoEntry THEN PyNone
              ELSE IF tokens[last.name].key # EncryptionKey THEN PyNone
              ELSE IF ~tokens[last.name].intact THEN PyNone
              ELSE AccessTokenOf(JsonLoads(tokens[last.name].data))

\* get_access_token was called for a name whose ciphertext was changed after
\* a grant stored it
C17_Witness ==
    /\ last.op = "get"
    /\ tokens[last.name] # NoEntry
    /\ tokens[last.name].key = EncryptionKey
    /\ ~tokens[last.name].intact
    /\ last.value = PyNone

\* C18: every invocation of the simulated grant makes no network call, logs
\* the non-production warning, and stores for the name a record with a
\* non-empty access_token and refresh_token, expires_in = 3600 and the fixed
\* scope; its access token differs from the access token of every token
\* stored before, so two invocations yield distinct access tokens.
C18_SimulatedGrant ==
    [][\A n \in BankNames :
          (IsCall("simulate") /\ last'.name = n) =>
              /\ ~last'.posted
              /\ last'.out.kind = "none"
              /\ last'.log = "WARNING"
              /\ last'.error = PyNone
              /\ tokens'[n] # NoEntry
              /\ Decrypts(tokens'[n])
              /\ DecryptToken(tokens'[n]).type = "object"
              /\ {"access_token", "refresh_token", "expires_in", "scope"}
                     \subseteq DOMAIN DecryptToken(tokens'[n]).dict
              /\ Truthy(DecryptToken(tokens'[n]).dict["access_token"])
              /\ Truthy(DecryptToken(tokens'[n]).dict["refresh_token"])
              /\ DecryptToken(tokens'[n]).dict["expires_in"] = 3600
              /\ DecryptToken(tokens'[n]).dict["scope"] = "accounts transactions balances"
              /\ \A m \in BankNames :
                     GetAccessToken(tokens', n) # AccessTokenOf(last.recent[m])]_vars

\* two invocations in a row, for the two names, left two access tokens
C18_Witness ==
    /\ last.op = "simulate"
    /\ last.by["bankA"] = "grant"
    /\ last.by["bankB"] = "grant"
    /\ last.token = MockToken(3, 4)
    /\ calls = 2
    /\ GetAccessToken(tokens, "bankA") # GetAccessToken(tokens, "bankB")

\* C19: _ensure_valid_token is idempotent: when is_token_valid holds for the
\* key of the bank it runs no grant and leaves the Token Store unchanged, and
\* a call that follows a call for the same bank leaves the store as that
\* call left it.
C19_EnsureIdempotent ==
    [][\A n \in BankNames :
          (IsCall("ensure") /\ last'.name = n) =>
              /\ IsTokenValid(tokens, n) =>
                     /\ <<tokens', encCount', rndCount'>> = <<tokens, encCount, rndCount>>
                     /\ last'.token = NoJson
                     /\ last'.log = "none"
                     /\ ~last'.posted
              /\ (last.op = "ensure" /\ last.name = n) => tokens' = tokens]_vars

\* the second of two calls in a row: the first ran the simulated grant, the
\* second nothing
C19_Witness ==
    /\ calls = 2
    /\ last.op = "ensure"
    /\ last.token = NoJson
    /\ last.by[last.name] = "ensure"
    /\ IsTokenValid(tokens, last.name)

\* C20: the key under which main stores the token of the bank (the
\* configured name) is the key _ensure_valid_token looks up, so that
\* connect_all_accounts finds the token main stored and runs no simulated
\* grant of its own.
C20_StoredKeyIsLookupKey ==
    pc = "connected" =>
        /\ TokenKey(cfg.name, PrimaryKey) = cfg.name
        /\ ~hist.regranted

-----------------------------------------------------------------------------
(* Properties of the token-endpoint calls (C21 under RetrySpec), of the    *)
(* helpers (C22..C25 under HelperSpec), of the flow (C26, C27 under Spec)  *)
(* and of the listener (C28..C30 under ListenerSpec).                      *)

\* C21: token-endpoint calls are not retried: each invocation of code
\* exchange, password grant or refresh issues at most one POST, whatever
\* retry_attempts is configured and whatever the outcome of the call.
C21_NoRetry ==
    /\ last.posts \in {0, 1}
    /\ last.posted => last.posts = 1

\* a refresh that timed out on a manager with retry_attempts = 3
C21_Witness ==
    /\ cfg.retry_attempts = DefaultRetryAttempts
    /\ last.op = "refresh"
    /\ last.posted
    /\ last.out.kind = "timeout"
    /\ last.posts = 1

\* C22: key derivation yields a key the cipher accepts for every secret the
\* operator supplies: a secret that is a valid key is used unmodified, any
\* other non-empty string is hashed into a valid key, and with no secret a
\* fresh random key is generated.
C22_KeyDerivationUsable ==
    last.op = "construct" =>
        /\ last.error = PyNone
        /\ ~Truthy(last.out.secret) => last.out.key.src = "generated"
        /\ (Truthy(last.out.secret) /\ last.out.secret = FernetKeyText) =>
               last.out.key = [src |-> "env", text |-> last.out.secret]
        /\ (Truthy(last.out.secret) /\ last.out.secret # FernetKeyText) =>
               last.out.key = [src |-> "sha256", text |-> last.out.secret]

\* C23: for every token record, decrypting the result of encrypting it gives
\* the same record: each optional field (refresh_token, scope) is absent if
\* it was absent and present with the same value if it was present.
C23_RoundTrip ==
    last.op = "decrypt" =>
        /\ last.out.json = last.recent[last.name]
        /\ \A f \in {"refresh_token", "scope"} :
               /\ f \in DOMAIN last.out.json.dict <=> f \in DOMAIN last.recent[last.name].dict
               /\ f \in DOMAIN last.recent[last.name].dict =>
                      DictGet(last.out.json.dict, f) = last.recent[last.name].dict[f]

\* a record with an empty scope and no refresh_token came back from the cipher
C23_Witness ==
    /\ last.op = "decrypt"
    /\ last.recent[last.name] = TokenRecord(Missing, "")
    /\ last.out.json = TokenRecord(Missing, "")

\* C24: two encrypt calls on the same token record produce different
\* ciphertexts, and both ciphertexts decrypt to that record.
C24_EncryptNonDeterministic ==
    [][\A n \in BankNames, m \in BankNames :
          (/\ IsCall("encrypt")
           /\ last'.name = n
           /\ tokens[m] # NoEntry
           /\ last.recent[m] = last'.token)
          => (/\ tokens'[n] # tokens[m]
              /\ DecryptToken(tokens'[n]) = last'.token
              /\ DecryptToken(tokens[m]) = last'.token)]_vars

\* the same record was encrypted twice, the two ciphertexts are both held
C24_Witness ==
    /\ last.op = "encrypt"
    /\ calls = 2
    /\ tokens["bankA"] # NoEntry
    /\ tokens["bankB"] # NoEntry
    /\ last.recent["bankA"] = last.recent["bankB"]
    /\ tokens["bankA"] # tokens["bankB"]

\* whether the query of an authorization URL has the parameter with the value
HasParam(query, key, value) ==
    \E i \in DOMAIN query : query[i] = <<key, QuotePlus(value)>>

\* C25: the authorization URL always carries response_type=code, client_id,
\* redirect_uri and the generated state, and carries a scope parameter if and
\* only if a non-empty scope is configured.
C25_ScopeOnlyIfConfigured ==
    last.op = "url" =>
        /\ HasParam(last.out.query, "response_type", "code")
        /\ HasParam(last.out.query, "client_id", "cid")
        /\ HasParam(last.out.query, "redirect_uri", RedirectUri)
        /\ HasParam(last.out.query, "state", last.out.state)
        /\ (\E i \in DOMAIN last.out.query : last.out.query[i][1] = "scope")
               <=> (last.out.scope # PyNone /\ last.out.scope # "")
        /\ (last.out.scope # PyNone /\ last.out.scope # "") =>
               HasParam(last.out.query, "scope", last.out.scope)

\* a URL was generated for a bank whose scope is the empty default
C25_Witness ==
    /\ last.op = "url"
    /\ last.out.scope = ""
    /\ Len(last.out.query) = 4

\* C26: in the authorization-code flow the listener is bound and serving
\* /callback before the browser is directed to the authorization URL, so
\* that from the moment the browser is opened until the listener is over a
\* redirect finds the port bound.
C26_ListenerBeforeBrowser ==
    (hist.browser > 0 /\ pc \in {"acf_listen", "acf_wait"} /\ lpc # "done") =>
        portOwner = "listener"

\* C27: when launching the browser fails during the authorization-code flow
\* (webbrowser.open returns False or raises), the authentication phase ends
\* with the simulated grant as fallback.
C27_BrowserFailureFallsBack ==
    (hist.launchFailed /\ pc \in {"authenticated", "connected"}) => hist.fellBack

\* C28: run_https_callback_server returns the timeout result only if no
\* /callback request was handled during the invocation: a callback handled
\* after the last poll and before the listener is torn down is not discarded
\* in favour of a timeout.
C28_TimeoutOnlyIfNoCallback ==
    (lpc = "done" /\ lout = Returned(TimeoutResult)) =>
        (lobs.captured = 0 /\ lobs.late = 0)

\* C29: run_https_callback_server always terminates: once it is bound, it
\* returns whatever requests arrive, after at most `timeout` polls; with
\* timeout = 0 it returns the timeout result without polling.
C29_Terminates ==
    /\ [](polls <= ltimeout)
    /\ []((lpc = "done" /\ lobs.bound /\ ltimeout = 0) =>
             (polls = 0 /\ lout = Returned(TimeoutResult)))
    /\ (lpc \in {"sleep", "finally"}) ~> (lpc = "done" /\ lout.kind = "returned")

\* an invocation returned after polling `timeout` times while requests came in
C29_Witness ==
    /\ lpc = "done"
    /\ lout.kind = "returned"
    /\ ltimeout = MaxTimeout
    /\ polls = ltimeout
    /\ nreq = MaxRequests

\* C30: requests to / and /favicon.ico never mark the result as captured:
\* they leave the captured-result slot and the wait loop as they are, so the
\* slot stays None as long as no /callback was handled.
C30_OtherRequestsKeepSlot ==
    [][/\ (nreq' = nreq + 1 /\ lobs' = lobs) =>
              (authResult' = authResult /\ lpc' = lpc /\ lout' = lout /\ polls' = polls)
       /\ (lobs'.captured = 0 /\ lobs'.late = 0) => authResult'.none]_vars

\* / was served twice and the listener, one poll later, still waits
C30_Witness ==
    /\ lpc = "sleep"
    /\ polls >= 1
    /\ nreq = 2
    /\ lobs.captured = 0
    /\ authResult.none

-----------------------------------------------------------------------------
(* FlowSpec: OAuthManager.authorization_code_flow called directly, with    *)
(* client credentials and any TLS settings.                                *)

\* configurations with a client id and secret; the TLS paths may be unset
\* and the files they name may be unloadable
FlowConfigs == {c \in Configs : /\ c.name = "bankA"
                                /\ c.client_id = "cid"
                                /\ c.client_secret = "secret"}

\* a caller awaits manager.authorization_code_flow(bank_config, app_config);
\* the flow ends at "authenticated" (the token is returned) or at "except"
\* (the exception hist.error leaves the flow)
CallAuthorizationCodeFlow ==
    /\ pc = "select"
    /\ pc' = "acf_url"
    /\ hist' = [hist EXCEPT !.acf = TRUE]
    /\ UNCHANGED <<cfg, conn, flowState>>
    /\ UNCHANGED <<storeVars, listenerVars, apiVars>>

FlowNext ==
    \/ CallAuthorizationCodeFlow
    \/ \E s \in FlowStates : AcfGenerateUrl(s)
    \/ \E o \in {"opened", "not opened", "raised"} : AcfOpenBrowser(o)
    \/ AcfListen
    \/ AcfResult
    \/ \E out \in PostOutcomes : AcfExchange(out)
    \/ ListenerStep

FlowInit == \E c \in FlowConfigs : InitWith(c)

FlowSpec == FlowInit /\ [][FlowNext]_vars

\* the flow has read the listener's outcome (lines 284-289)
CallbackRead == hist.listeners = 1 /\ lpc = "done" /\ pc # "acf_wait"

\* C31: a captured callback (or the timeout result) that carries an error, or
\* that carries no code (a /callback request without query parameters
\* included), makes authorization_code_flow raise OAuthError without any POST
\* to the token endpoint and without touching the store; the error decides
\* even when a code is present too.
C31_BadCallbackRaisesWithoutPost ==
    (/\ CallbackRead
     /\ lout.kind = "returned"
     /\ (Truthy(lout.result.error) \/ ~Truthy(lout.result.code)))
        => /\ pc = "except"
           /\ hist.error = "OAuthError"
           /\ hist.posts = 0
           /\ \A n \in StoreKeys : tokens[n] = NoEntry

\* the flow raised on a callback that brought both an error and a code
C31_Witness ==
    /\ CallbackRead
    /\ pc = "except"
    /\ lout.kind = "returned"
    /\ lout.result.error = "access_denied"
    /\ Truthy(lout.result.code)
    /\ lobs.captured = 1
    /\ hist.posts = 0

\* C32: when the certificate or key cannot be loaded the listener ends with
\* an error before the runner is set up and before any socket is bound (it
\* never serves a request); and when either TLS path is unconfigured,
\* authorization_code_flow raises OAuthError before the browser is opened and
\* before the listener is started.
C32_TlsFailuresComeFirst ==
    /\ (lpc \notin {"idle", "ssl"} /\ ~lcertOk) =>
           /\ lpc = "done"
           /\ lout = Raised("SSLError")
           /\ ~lobs.bound
           /\ runner = "none"
           /\ portOwner # "listener"
           /\ nreq = 0
    /\ (/\ hist.acf
        /\ pc # "acf_url"
        /\ (~Truthy(cfg.tls_cert_path) \/ ~Truthy(cfg.tls_key_path))) =>
           /\ pc = "except"
           /\ hist.error = "OAuthError"
           /\ hist.browser = 0
           /\ hist.listeners = 0
           /\ lpc = "idle"

\* the flow, given both paths, started the listener on files that cannot be
\* loaded: the listener raised with nothing bound and the flow raised too
C32_Witness ==
    /\ pc = "except"
    /\ hist.listeners = 1
    /\ ~cfg.tlsLoadable
    /\ lout = Raised("SSLError")
    /\ hist.error = "SSLError"
    /\ ~lobs.bound
    /\ portOwner = "free"

\* C33: a code exchange, password grant or refresh that ends with an
\* exception (a response other than 200, a timeout, a network error, missing
\* credentials, no refresh token) leaves the Token Store exactly as it was
\* before the call; after a failed refresh the record still gives the same
\* access token and can still be refreshed.
C33_FailureLeavesStore ==
    [][\A op \in {"exchange", "password", "refresh"} :
          (IsCall(op) /\ last'.error # PyNone) =>
              /\ tokens' = tokens
              /\ encCount' = encCount
              /\ (op = "refresh" /\ last'.posted) =>
                    /\ CanRefresh(tokens', last'.name)
                    /\ GetAccessToken(tokens', last'.name)
                           = GetAccessToken(tokens, last'.name)]_vars

\* a refresh that was posted timed out; the record it tried to renew is
\* still valid and still refreshable
C33_Witness ==
    /\ last.op = "refresh"
    /\ last.posted
    /\ last.out.kind = "timeout"
    /\ last.error = "OAuthError"
    /\ IsTokenValid(tokens, last.name)
    /\ CanRefresh(tokens, last.name)

\* C34: a grant or a refresh for one name changes only the entry of that
\* name in the Token Store: the ciphertext, the access token and the
\* validity of every other name are what they were.
C34_OtherEntriesUntouched ==
    [][(last'.op \in GrantOps \cup {"refresh"} /\ calls' = calls + 1) =>
          /\ \A m \in StoreKeys \ {last'.name} : tokens'[m] = tokens[m]
          /\ \A m \in BankNames \ {last'.name} :
                /\ GetAccessToken(tokens', m) = GetAccessToken(tokens, m)
                /\ IsTokenValid(tokens', m) = IsTokenValid(tokens, m)]_vars

\* bankA was refreshed with success while bankB holds the record of its own
\* grant
C34_Witness ==
    /\ calls = 3
    /\ last.op = "refresh"
    /\ last.name = "bankA"
    /\ last.error = PyNone
    /\ last.by = [n \in BankNames |-> IF n = "bankA" THEN "refresh" ELSE "grant"]
    /\ IsTokenValid(tokens, "bankB")
    /\ tokens["bankB"] # tokens["bankA"]

-----------------------------------------------------------------------------
(* ConnectSpec: BankConnector.connect_all_accounts on any banks_config,    *)
(* the manager holding at most one exchanged token.                        *)

\* one item of banks_config.items(): the key, bank_config['name'], and
\* whether bank_config is a dict at all (bank_config.get raises if not)
BankEntries == [key : ConnKeys, name : BankNames \cup {""}, isDict : BOOLEAN]

\* banks_config.items(): a dict has each key once; its order is kept
BanksConfigs ==
    {<<>>} \cup {<<b>> : b \in BankEntries}
           \cup {s \in {<<b, c>> : b \in BankEntries, c \in BankEntries} :
                      s[1].key # s[2].key}

\* what the GET of the accounts can give: 200 with accounts, 200 with none,
\* another status, an exception inside the try of _fetch_accounts
FetchOutcomes == {"accounts", "no accounts", "status", "error"}

\* the for loop, after the body is over for the current bank
NextBank(c) ==
    IF c.i = Len(c.banks) THEN [c EXCEPT !.phase = "done"]
    ELSE [c EXCEPT !.i = @ + 1, !.phase = "ensure"]

\* (mutant) an exception in the body leaves the loop
AfterBankFailureAborts(c) ==
    [c EXCEPT !.phase = "done", !.failed = @ \cup {c.banks[c.i].key}]

\* lines 124-127: an exception in the body gives the bank an empty list and
\* the loop goes on
AfterBankFailure(c) ==
    NextBank([c EXCEPT !.all[c.banks[c.i].key] = "empty",
                       !.failed = @ \cup {c.banks[c.i].key}])

\* _fetch_accounts: the list it returns (the accounts of the bank, the two
\* mock accounts, or the empty list) for the access token it finds
FetchAccounts(token, outcome) ==
    IF ~Truthy(token) THEN "empty"
    ELSE IF outcome = "accounts" THEN "accounts"
    ELSE "mock"

\* whether _fetch_accounts met a failure: no token, a status other than 200,
\* an exception
FetchFailed(token, outcome) == ~Truthy(token) \/ outcome \in {"status", "error"}

\* await connector.connect_all_accounts(), up to the first iteration
ConnectAllAccounts(banks) ==
    /\ conn.phase = "idle"
    /\ conn' = [NoConn EXCEPT !.phase = IF banks = <<>> THEN "done" ELSE "ensure",
                              !.banks = banks,
                              !.i = IF banks = <<>> THEN 0 ELSE 1]
    /\ UNCHANGED <<cfg, pc, flowState, hist>>
    /\ UNCHANGED <<storeVars, listenerVars, apiVars>>

\* line 115: await self._ensure_valid_token(bank_name, bank_config)
ConnEnsure ==
    /\ conn.phase = "ensure"
    /\ LET b == conn.banks[conn.i]
       IN  IF ~b.isDict
           THEN /\ conn' = AfterBankFailure(conn)
                /\ UNCHANGED storeVars
           ELSE /\ conn' = [conn EXCEPT !.phase = "fetch"]
                /\ IF NeedsGrant(tokens, TokenKey(b.name, b.key))
                   THEN Simulate(TokenKey(b.name, b.key))
                   ELSE UNCHANGED storeVars
    /\ UNCHANGED <<cfg, pc, flowState, hist>>
    /\ UNCHANGED <<listenerVars, apiVars>>

\* lines 118-119: accounts = await self._fetch_accounts(...), stored under
\* the key of the bank
ConnFetch(outcome) ==
    /\ conn.phase = "fetch"
    /\ LET b == conn.banks[conn.i]
           token == GetAccessToken(tokens, TokenKey(b.name, b.key))
       IN  conn' = NextBank([conn EXCEPT
                       !.all[b.key] = FetchAccounts(token, outcome),
                       !.failed = IF FetchFailed(token, outcome)
                                  THEN @ \cup {b.key} ELSE @])
    /\ UNCHANGED <<cfg, pc, flowState, hist>>
    /\ UNCHANGED <<storeVars, listenerVars, apiVars>>

\* before the connector runs, the manager may have exchanged a code once
ConnectNext ==
    \/ \E n \in BankNames, out \in PostOutcomes :
          conn.phase = "idle" /\ calls = 0 /\ CallExchange(n, out)
    \/ \E banks \in BanksConfigs : ConnectAllAccounts(banks)
    \/ ConnEnsure
    \/ \E o \in FetchOutcomes : ConnFetch(o)

ConnectInit == InitWith(SandboxConfig)

ConnectSpec == ConnectInit /\ [][ConnectNext]_vars

\* the keys of the configured banks
ConfiguredKeys == {conn.banks[j].key : j \in 1..Len(conn.banks)}

\* C35: the mapping connect_all_accounts returns has an entry for a key
\* exactly if a bank is configured under it; a bank whose authentication or
\* fetch failed has the empty list or the mock accounts; and whatever
\* happened to the banks before it, each bank of the configuration gets its
\* turn and its entry.
C35_OneEntryPerBank ==
    /\ conn.phase = "done" =>
           \A k \in ConnKeys : (conn.all[k] # Absent) <=> (k \in ConfiguredKeys)
    /\ conn.phase \in {"ensure", "fetch"} =>
           /\ conn.i \in 1..Len(conn.banks)
           /\ \A j \in 1..Len(conn.banks) :
                 (conn.all[conn.banks[j].key] # Absent) <=> (j < conn.i)
    /\ \A k \in conn.failed : conn.all[k] \in {"empty", "mock"}
    /\ \A k \in ConnKeys : conn.all[k] \in {Absent, "accounts", "mock", "empty"}

\* the first of two banks failed at its token, the second was fetched
C35_Witness ==
    /\ conn.phase = "done"
    /\ Len(conn.banks) = 2
    /\ ~conn.banks[1].isDict
    /\ conn.failed = {conn.banks[1].key}
    /\ conn.all[conn.banks[1].key] = "empty"
    /\ conn.all[conn.banks[2].key] = "accounts"

====
